---- MODULE Spec2Model ----
(***************************************************************************)
(* The user-management server actions of the file-share sample             *)
(* (getReadableUsersWithPermissions, createUser, deleteUser,               *)
(* editUsersRoleByUsername), the Polar policy they are authorized by, the  *)
(* users table they read and write, and the pg connection pool they run    *)
(* on.                                                                     *)
(*                                                                         *)
(* Every `await` of a server action is a scheduling point: one action of   *)
(* this module is one awaited statement together with the synchronous code *)
(* that follows it up to the next await (or up to the return, `finally`    *)
(* included).                                                              *)
(***************************************************************************)
EXTENDS Integers, Sequences, FiniteSets, TLC

(***************************************************************************)
(* Bounds of the model.                                                    *)
(***************************************************************************)
NumProcs == 2
NumConns == 2
MaxBatch == 2
MaxCalls == 2

Procs == 1..NumProcs
Conns == 1..NumConns

(***************************************************************************)
(* The data the model ranges over.                                         *)
(***************************************************************************)
\* usernames, in the order of ORDER BY username
UsernameOrder == <<"alice", "bob", "root">>
Usernames == {UsernameOrder[i] : i \in 1..Len(UsernameOrder)}
\* CREATE TABLE organizations, with the `global` organization and one more
Organizations == {"_", "acme"}
\* CREATE TYPE organization_role AS ENUM ('member', 'admin')
organization_role == {"member", "admin"}
\* what a caller may submit as a role: the enum's values and one that is not
RoleInputs == organization_role \cup {"owner"}

NoRow == [org |-> "-", role |-> "-"]
Rows == [org : Organizations, role : organization_role]
NoClient == 0

VARIABLES
    users,      \* the committed users table: username -> row, or NoRow
    conn,       \* the pool's clients: holder, transaction, queued statement
    call,       \* one server-action invocation per process
    nCalls,     \* the server actions invoked so far
    ui          \* the UserCreator component's state

vars == <<users, conn, call, nCalls, ui>>

Exists(db, u) == db[u] # NoRow

(***************************************************************************)
(* Facts (oso local authorization config) and policy (Polar).              *)
(***************************************************************************)
\* has_role(User:_, String:_, Organization:_)
has_role(db) ==
    {<<u, db[u].role, db[u].org>> : u \in {x \in Usernames : Exists(db, x)}}

\* has_relation(User:_, parent, Organization:_)
has_relation_parent(db) ==
    {<<u, db[u].org>> : u \in {x \in Usernames : Exists(db, x)}}

\* resource Organization: roles, with "member" if "admin"
OrganizationRole(db, actor, role, org) ==
    \/ <<actor, role, org>> \in has_role(db)
    \/ role = "member" /\ <<actor, "admin", org>> \in has_role(db)

\* resource Organization: permissions
OrganizationPermission(db, actor, action, org) ==
    \/ action = "read" /\ OrganizationRole(db, actor, "member", org)
    \/ action = "create_user" /\ OrganizationRole(db, actor, "admin", org)

\* actor User: the role on "parent" each permission asks for
UserPermissionRole(action) ==
    CASE action = "read" -> "member"
      [] action = "edit_role" -> "admin"
      [] action = "delete" -> "admin"
      [] OTHER -> "none"

\* actor User: permissions
UserPermission(db, actor, action, user) ==
    \E org \in Organizations :
        /\ <<user, org>> \in has_relation_parent(db)
        /\ OrganizationRole(db, actor, UserPermissionRole(action), org)

\* the point check: is actor allowed action on resource, in database state db
authorizeUser(db, actor, action, resource) ==
    CASE resource.type = "Organization" ->
            OrganizationPermission(db, actor, action, resource.id)
      [] resource.type = "User" ->
            UserPermission(db, actor, action, resource.id)
      [] OTHER -> FALSE

\* oso.listLocal(osoUser, action, "User", column): the condition, as the set of
\* values of the column it accepts when it is evaluated in database state db
listLocal(db, actor, action) ==
    {f[1] : f \in {g \in has_relation_parent(db) :
        \E r \in has_role(db) :
            /\ r[1] = actor
            /\ r[3] = g[2]
            /\ \/ r[2] = UserPermissionRole(action)
               \/ r[2] = "admin" /\ UserPermissionRole(action) = "member"}}

(***************************************************************************)
(* Clients of the pool and invocations.                                    *)
(*                                                                         *)
(* A client: who holds it, its transaction ("none", "open", "aborted"),    *)
(* the uncommitted roles its transaction has written, the requestor the    *)
(* transaction runs for, the statement sent on it without await and not    *)
(* yet run, and whether the UPDATE of its transaction found the requestor  *)
(* authorized on every submitted target.                                   *)
(*                                                                         *)
(* An invocation: the action, its position, the arguments it has read so   *)
(* far, and what it has observed. The requestor is read first. An argument *)
(* that only one statement reads is drawn where that statement runs: org   *)
(* and username at the authorizeUser check, the new row's username and     *)
(* role at the INSERT, updates at the UPDATE.                              *)
(***************************************************************************)
NoWrites == [u \in Usernames |-> "-"]
\* the roles the batch of a queued COMMIT submits for each user
NoRoles == [u \in Usernames |-> {}]
FreshConn == [holder |-> 0, txn |-> "none", writes |-> NoWrites,
              by |-> "-", queued |-> "none", full |-> FALSE,
              submitted |-> NoRoles]

IdleCall == [op |-> "idle", pc |-> "idle", requestor |-> "-", username |-> "-",
             org |-> "-", client |-> NoClient,
             result |-> "none", ret |-> <<>>, thisUser |-> "-", snap |-> {},
             acquired |-> 0, released |-> 0,
             checked |-> FALSE, auth |-> FALSE, mutated |-> FALSE,
             authAtStmt |-> FALSE,
             n |-> -1, nAuth |-> -1, rowCount |-> -1,
             revokedOn |-> {}, revoked |-> FALSE, revokedStill |-> FALSE,
             sent |-> "none", role |-> "-"]

\* the bootstrap user of the schema, and whether and where alice and bob exist
InitialTables ==
    {db \in [Usernames -> Rows \cup {NoRow}] :
        /\ db["root"] = [org |-> "_", role |-> "admin"]
        /\ db["alice"] \in {NoRow, [org |-> "acme", role |-> "member"],
                            [org |-> "_", role |-> "member"]}
        /\ db["bob"] \in {NoRow, [org |-> "acme", role |-> "admin"],
                          [org |-> "_", role |-> "admin"]}}

Init ==
    /\ users \in InitialTables
    /\ conn = [c \in Conns |-> FreshConn]
    /\ call = [p \in Procs |-> IdleCall]
    /\ nCalls = 0
    /\ ui = [users |-> <<>>, errorMessage |-> FALSE]

(***************************************************************************)
(* Helpers of the server actions.                                          *)
(***************************************************************************)
\* pool.connect() hands out a client nobody holds
IdleClients == {c \in Conns : conn[c].holder = 0}

\* fault: the client is never given back
releaseNothing(cn, c) == cn

\* client.release(): the client goes back to the pool as it is
release(cn, c) == [cn EXCEPT ![c].holder = 0]

\* a statement sent on client c runs after the statement queued before it
Ready(c) == conn[c].queued = "none"

\* a row written by another client's open transaction is locked until it ends
LockedByOther(c, names) ==
    \E d \in Conns \ {c} :
        /\ conn[d].txn = "open"
        /\ \E u \in names : conn[d].writes[u] # "-"

\* the targets of a batch
Targets(updates) == {updates[i].username : i \in 1..Len(updates)}

EditRole(db, requestor, u) ==
    authorizeUser(db, requestor, "edit_role", [type |-> "User", id |-> u])

\* a committed change of users from db to db2, as seen by the calls that have
\* compiled their edit_role condition and not yet run their UPDATE: the users
\* on whom their requestor has lost edit_role
Observe(cl, db, db2) ==
    [q \in Procs |->
        IF cl[q].op = "editUsersRoleByUsername" /\ cl[q].pc \in {"begin", "update"}
        THEN [cl[q] EXCEPT !.revokedOn = @ \cup
                {u \in Usernames : /\ EditRole(db, cl[q].requestor, u)
                                   /\ ~EditRole(db2, cl[q].requestor, u)}]
        ELSE cl[q]]

\* the call of process p ends: its result, and the client released in `finally`
Finished(p, result) ==
    [call[p] EXCEPT !.pc = "done", !.result = result, !.client = NoClient,
                    !.released = @ + 1]

\* a server action is invoked; it runs as the first process that is free
Start(p, op, requestor) ==
    /\ call[p].op = "idle"
    /\ \A q \in Procs : q < p => call[q].op # "idle"
    /\ nCalls < MaxCalls
    /\ nCalls' = nCalls + 1
    /\ call' = [call EXCEPT ![p] =
                    [IdleCall EXCEPT !.op = op, !.pc = "connect",
                                     !.requestor = requestor]]
    /\ UNCHANGED <<users, conn, ui>>

(***************************************************************************)
(* pool.connect(), first statement of every server action.                 *)
(***************************************************************************)
Connect(p) ==
    /\ call[p].pc = "connect"
    /\ \E c \in IdleClients :
        /\ conn' = [conn EXCEPT ![c].holder = p]
        /\ call' = [call EXCEPT ![p].client = c,
                                ![p].acquired = @ + 1,
                                ![p].pc =
                                    CASE call[p].op = "getReadableUsersWithPermissions" -> "compile"
                                      [] call[p].op = "editUsersRoleByUsername" -> "compile"
                                      [] OTHER -> "check"]
    /\ UNCHANGED <<users, nCalls, ui>>

(***************************************************************************)
(* getReadableUsersWithPermissions(requestor)                              *)
(***************************************************************************)
StartGetReadable(p) ==
    \E requestor \in Usernames :
        Start(p, "getReadableUsersWithPermissions", requestor)

\* the three oso.listLocal calls; any of them may throw
GetReadableCompile(p) ==
    /\ call[p].op = "getReadableUsersWithPermissions"
    /\ call[p].pc = "compile"
    /\ \E ok \in BOOLEAN :
        IF ok
        THEN /\ call' = [call EXCEPT ![p].pc = "query"]
             /\ UNCHANGED conn
        ELSE /\ call' = [call EXCEPT ![p] = Finished(p, "throw")]
             /\ conn' = release(conn, call[p].client)
    /\ UNCHANGED <<users, nCalls, ui>>

\* fault: the query without its WHERE clause
ReadableUsernamesUnfiltered(db, requestor) ==
    {u \in Usernames : Exists(db, u)}

\* WHERE ${readableUsersCond}
ReadableUsernames(db, requestor) ==
    {u \in Usernames : Exists(db, u) /\ u \in listLocal(db, requestor, "read")}

\* fault: the permission columns are a constant, not computed for the row
SelectUsersWithoutPermissions(db, requestor) ==
    LET names == SelectSeq(UsernameOrder,
                           LAMBDA u : Exists(db, u) /\ u \in listLocal(db, requestor, "read"))
    IN  [i \in 1..Len(names) |->
            [username |-> names[i],
             org |-> db[names[i]].org,
             role |-> db[names[i]].role,
             editRole |-> FALSE,
             deleteUser |-> FALSE]]

\* SELECT username, org, role, ... as "editRole", ... as "deleteUser"
\* FROM users WHERE ... ORDER BY username
SelectUsersWithPermissions(db, requestor) ==
    LET names == SelectSeq(UsernameOrder,
                           LAMBDA u : u \in ReadableUsernames(db, requestor))
    IN  [i \in 1..Len(names) |->
            [username |-> names[i],
             org |-> db[names[i]].org,
             role |-> db[names[i]].role,
             editRole |-> names[i] \in listLocal(db, requestor, "edit_role"),
             deleteUser |-> names[i] \in listLocal(db, requestor, "delete")]]

\* fault: the requestor is never found
findIndexNone(rows, requestor) == -1

\* users.findIndex((user) => user.username === requestor), 0-based, -1 if none
findIndex(rows, requestor) ==
    IF \E i \in 1..Len(rows) : rows[i].username = requestor
    THEN (CHOOSE i \in 1..Len(rows) :
            /\ rows[i].username = requestor
            /\ \A j \in 1..(i - 1) : rows[j].username # requestor) - 1
    ELSE -1

\* fault: the requestor's row is left in the array
spliceNothing(rows, userIndex) == rows

\* users.splice(userIndex, 1): the rows left in the array
splice(rows, userIndex) ==
    SubSeq(rows, 1, userIndex) \o SubSeq(rows, userIndex + 2, Len(rows))

\* the users the requestor may read by the point check, in table db
MayRead(db, requestor) ==
    {u \in Usernames :
        authorizeUser(db, requestor, "read", [type |-> "User", id |-> u])}

\* the query, and the synchronous code up to the return; snap is what the
\* point check allows to read in the table the query ran against, checked
\* whether the query returned rows for findIndex to search
GetReadableQuery(p) ==
    LET c == call[p].client
        rows == SelectUsersWithPermissions(users, call[p].requestor)
        userIndex == findIndex(rows, call[p].requestor)
    IN
    /\ call[p].op = "getReadableUsersWithPermissions"
    /\ call[p].pc = "query"
    /\ Ready(c)
    /\ IF conn[c].txn = "aborted" \/ userIndex = -1
       THEN call' = [call EXCEPT ![p] =
                [Finished(p, "throw") EXCEPT !.checked = (conn[c].txn # "aborted")]]
       ELSE call' = [call EXCEPT ![p] =
                [Finished(p, "ok") EXCEPT !.ret = splice(rows, userIndex),
                                          !.checked = TRUE,
                                          !.thisUser = rows[userIndex + 1],
                                          !.snap = MayRead(users, call[p].requestor)]]
    /\ conn' = release(conn, c)
    /\ UNCHANGED <<users, nCalls, ui>>

\* UserCreator.updateUsers: the code after the await. The value returned is
\* the object {users, thisUser}, which has no filter method, so a normal
\* return throws too and setUsers is never reached.
updateUsers(p) ==
    /\ call[p].op = "getReadableUsersWithPermissions"
    /\ call[p].pc = "done"
    /\ ui' = [ui EXCEPT !.errorMessage = TRUE]
    /\ call' = [call EXCEPT ![p] = IdleCall]
    /\ UNCHANGED <<users, conn, nCalls>>

(***************************************************************************)
(* createUser(p, _prevState, formData)                                     *)
(***************************************************************************)
StartCreateUser(p) ==
    \E requestor \in Usernames : Start(p, "createUser", requestor)

\* fault: the result of the check is ignored
NotPermittedIgnored(auth) == FALSE

\* if (!auth)
NotPermitted(auth) == ~auth

\* await authorizeUser(client, p.requestor, "create_user", Organization), and
\* the early return; the check throws when the evaluator or the client does
CreateUserCheck(p) ==
    LET c == call[p].client IN
    /\ call[p].op = "createUser"
    /\ call[p].pc = "check"
    /\ Ready(c)
    /\ \E ok \in BOOLEAN, org \in Organizations :
        LET auth == authorizeUser(users, call[p].requestor, "create_user",
                                  [type |-> "Organization", id |-> org])
        IN
        IF ~ok \/ conn[c].txn = "aborted"
        THEN /\ call' = [call EXCEPT ![p] = [Finished(p, "fail") EXCEPT !.org = org]]
             /\ conn' = release(conn, c)
        ELSE IF NotPermitted(auth)
        THEN /\ call' = [call EXCEPT ![p] =
                    [Finished(p, "fail") EXCEPT !.org = org, !.checked = TRUE,
                                                !.auth = auth]]
             /\ conn' = release(conn, c)
        ELSE /\ call' = [call EXCEPT ![p].org = org, ![p].checked = TRUE,
                                     ![p].auth = auth, ![p].pc = "mutate"]
             /\ UNCHANGED conn
    /\ UNCHANGED <<users, nCalls, ui>>

\* fault: the INSERT never fails
InsertFailsNever(db, username, org, role) == FALSE

\* INSERT INTO users (username, org, role) VALUES ($1, $2, $3::organization_role)
\* fails on a duplicate username, an unknown organization, a role not in the enum
InsertFails(db, username, org, role) ==
    \/ Exists(db, username)
    \/ org \notin Organizations
    \/ role \notin organization_role

CreateUserInsert(p) ==
    LET c == call[p].client
        org == call[p].org
        stillAuth == authorizeUser(users, call[p].requestor, "create_user",
                                   [type |-> "Organization", id |-> org])
    IN
    /\ call[p].op = "createUser"
    /\ call[p].pc = "mutate"
    /\ Ready(c)
    /\ \E username \in Usernames, role \in RoleInputs :
        LET db2 == [users EXCEPT ![username] = [org |-> org, role |-> role]] IN
        /\ ~LockedByOther(c, {username})
        /\ IF InsertFails(users, username, org, role)
           THEN /\ call' = [call EXCEPT ![p] =
                        [Finished(p, "fail") EXCEPT !.username = username,
                                                    !.role = role,
                                                    !.mutated = TRUE,
                                                    !.authAtStmt = stillAuth]]
                /\ UNCHANGED users
           ELSE /\ users' = db2
                /\ call' = [Observe(call, users, db2) EXCEPT ![p] =
                        [Finished(p, "ok") EXCEPT !.username = username,
                                                  !.role = role,
                                                  !.mutated = TRUE,
                                                  !.authAtStmt = stillAuth]]
    /\ conn' = release(conn, c)
    /\ UNCHANGED <<nCalls, ui>>

(***************************************************************************)
(* deleteUser(requestor, username)                                         *)
(***************************************************************************)
StartDeleteUser(p) ==
    \E requestor \in Usernames : Start(p, "deleteUser", requestor)

\* await authorizeUser(client, requestor, "delete", User), and the throw
DeleteUserCheck(p) ==
    LET c == call[p].client IN
    /\ call[p].op = "deleteUser"
    /\ call[p].pc = "check"
    /\ Ready(c)
    /\ \E ok \in BOOLEAN, username \in Usernames :
        LET auth == authorizeUser(users, call[p].requestor, "delete",
                                  [type |-> "User", id |-> username])
        IN
        IF ~ok \/ conn[c].txn = "aborted"
        THEN /\ call' = [call EXCEPT ![p] =
                    [Finished(p, "throw") EXCEPT !.username = username]]
             /\ conn' = release(conn, c)
        ELSE IF NotPermitted(auth)
        THEN /\ call' = [call EXCEPT ![p] =
                    [Finished(p, "throw") EXCEPT !.username = username,
                                                 !.checked = TRUE, !.auth = auth]]
             /\ conn' = release(conn, c)
        ELSE /\ call' = [call EXCEPT ![p].username = username,
                                     ![p].checked = TRUE, ![p].auth = auth,
                                     ![p].pc = "mutate"]
             /\ UNCHANGED conn
    /\ UNCHANGED <<users, nCalls, ui>>

\* DELETE FROM users WHERE username = $1
DeleteUserDelete(p) ==
    LET c == call[p].client
        db2 == [users EXCEPT ![call[p].username] = NoRow]
        stillAuth == authorizeUser(users, call[p].requestor, "delete",
                                   [type |-> "User", id |-> call[p].username])
    IN
    /\ call[p].op = "deleteUser"
    /\ call[p].pc = "mutate"
    /\ Ready(c)
    /\ ~LockedByOther(c, {call[p].username})
    /\ users' = db2
    /\ call' = [Observe(call, users, db2) EXCEPT ![p] =
                    [Finished(p, "ok") EXCEPT !.mutated = TRUE,
                                              !.authAtStmt = stillAuth]]
    /\ conn' = release(conn, c)
    /\ UNCHANGED <<nCalls, ui>>

(***************************************************************************)
(* editUsersRoleByUsername(requestor, updates)                             *)
(***************************************************************************)
Update == [username : Usernames, role : RoleInputs]
Batches == UNION {[1..n -> Update] : n \in 0..MaxBatch}

StartEditUsersRole(p) ==
    \E requestor \in Usernames : Start(p, "editUsersRoleByUsername", requestor)

\* await oso.listLocal(osoUser, "edit_role", "User", "users.username")
EditUsersRoleCompile(p) ==
    /\ call[p].op = "editUsersRoleByUsername"
    /\ call[p].pc = "compile"
    /\ \E ok \in BOOLEAN :
        IF ok
        THEN /\ call' = [call EXCEPT ![p].pc = "begin"]
             /\ UNCHANGED conn
        ELSE /\ call' = [call EXCEPT ![p] = Finished(p, "throw")]
             /\ conn' = release(conn, call[p].client)
    /\ UNCHANGED <<users, nCalls, ui>>

\* await client.query("BEGIN"); it is refused in an aborted transaction
EditUsersRoleBegin(p) ==
    LET c == call[p].client IN
    /\ call[p].op = "editUsersRoleByUsername"
    /\ call[p].pc = "begin"
    /\ Ready(c)
    /\ IF conn[c].txn = "aborted"
       THEN /\ call' = [call EXCEPT ![p] = Finished(p, "throw")]
            /\ conn' = release(conn, c)
       ELSE /\ call' = [call EXCEPT ![p].pc = "update"]
            /\ conn' = [conn EXCEPT ![c].txn = "open",
                                    ![c].by = call[p].requestor]
    /\ UNCHANGED <<users, nCalls, ui>>

\* fault: the UPDATE without the edit_role condition
UpdateMatchesUnfiltered(db, requestor, updates) ==
    {u \in Targets(updates) : Exists(db, u)}

\* the rows of users the UPDATE joins with v and the condition accepts
UpdateMatches(db, requestor, updates) ==
    {u \in Targets(updates) :
        Exists(db, u) /\ u \in listLocal(db, requestor, "edit_role")}

\* fault: an empty VALUES list is accepted
UpdateRaisesOnCast(db, requestor, updates) ==
    \E i \in 1..Len(updates) :
        /\ updates[i].username \in {u \in Targets(updates) :
                Exists(db, u) /\ u \in listLocal(db, requestor, "edit_role")}
        /\ updates[i].role \notin organization_role

\* the UPDATE raises: no VALUES row at all (a syntax error), or a matched row
\* whose v.role is no value of organization_role
UpdateRaises(db, requestor, updates) ==
    \/ Len(updates) = 0
    \/ \E i \in 1..Len(updates) :
        /\ updates[i].username \in UpdateMatches(db, requestor, updates)
        /\ updates[i].role \notin organization_role

\* fault: the UPDATE without its WHERE clause, every row gets a submitted role
UpdateWritesAll(db, requestor, updates) ==
    {w \in [Usernames -> organization_role \cup {"-"}] :
        \A u \in Usernames :
            w[u] \in (IF Exists(db, u)
                      THEN {updates[i].role : i \in 1..Len(updates)}
                      ELSE {"-"})}

\* SET role = v.role: each matched row gets the role of one of its v rows
UpdateWrites(db, requestor, updates) ==
    LET matches == UpdateMatches(db, requestor, updates)
        roles(u) == {updates[i].role :
                        i \in {j \in 1..Len(updates) : updates[j].username = u}}
    IN  {w \in [Usernames -> organization_role \cup {"-"}] :
            \A u \in Usernames :
                w[u] \in (IF u \in matches THEN roles(u) ELSE {"-"})}

\* fault: the affected-row count is ignored
CountMismatchIgnored(rowCount, updates) == FALSE

\* if (r.rowCount !== updates.length)
CountMismatch(rowCount, updates) == rowCount # Len(updates)

\* await client.query(queryText, userFields), then ROLLBACK and throw, or
\* COMMIT and return; neither statement is awaited, so it is still queued on
\* the client when `finally` releases it
EditUsersRoleUpdateOf(p, batches) ==
    LET c == call[p].client
        requestor == call[p].requestor
    IN
    /\ call[p].op = "editUsersRoleByUsername"
    /\ call[p].pc = "update"
    /\ Ready(c)
    /\ \E updates \in batches :
        LET rowCount == Cardinality(UpdateMatches(users, requestor, updates))
            nAuth == Cardinality({i \in 1..Len(updates) :
                        EditRole(users, requestor, updates[i].username)})
            seen == [call[p] EXCEPT
                        !.mutated = TRUE,
                        !.n = Len(updates),
                        !.nAuth = nAuth,
                        !.revokedOn = {},
                        !.revoked = (call[p].revokedOn \cap Targets(updates) # {}),
                        !.revokedStill =
                            \E u \in call[p].revokedOn \cap Targets(updates) :
                                ~EditRole(users, requestor, u)]
            done(result) == [seen EXCEPT !.pc = "done", !.result = result,
                                         !.client = NoClient, !.released = @ + 1]
        IN
        /\ ~LockedByOther(c, Targets(updates))
        /\ IF UpdateRaises(users, requestor, updates)
           THEN /\ call' = [call EXCEPT ![p] = done("throw")]
                /\ conn' = release([conn EXCEPT ![c].txn = "aborted"], c)
           ELSE \E w \in UpdateWrites(users, requestor, updates) :
                IF CountMismatch(rowCount, updates)
                THEN /\ call' = [call EXCEPT ![p] =
                            [done("throw") EXCEPT !.rowCount = rowCount,
                                                  !.sent = "ROLLBACK"]]
                     /\ conn' = release([conn EXCEPT ![c].writes = w,
                                                     ![c].full = (nAuth = Len(updates)),
                                                     ![c].queued = "ROLLBACK"], c)
                ELSE /\ call' = [call EXCEPT ![p] =
                            [done("ok") EXCEPT !.rowCount = rowCount,
                                               !.sent = "COMMIT"]]
                     /\ conn' = release([conn EXCEPT ![c].writes = w,
                                                     ![c].full = (nAuth = Len(updates)),
                                                     ![c].submitted =
                                                        [u \in Usernames |->
                                                            {updates[i].role : i \in
                                                                {j \in 1..Len(updates) :
                                                                    updates[j].username = u}}],
                                                     ![c].queued = "COMMIT"], c)
    /\ UNCHANGED <<users, nCalls, ui>>

EditUsersRoleUpdate(p) == EditUsersRoleUpdateOf(p, Batches)

\* the server runs the COMMIT or ROLLBACK queued on client c
ExecQueued(c) ==
    LET db2 == [u \in Usernames |->
                    IF conn[c].writes[u] # "-" /\ Exists(users, u)
                    THEN [users[u] EXCEPT !.role = conn[c].writes[u]]
                    ELSE users[u]]
    IN
    /\ conn[c].queued # "none"
    /\ IF conn[c].queued = "COMMIT" /\ conn[c].txn = "open"
       THEN /\ users' = db2
            /\ call' = Observe(call, users, db2)
       ELSE UNCHANGED <<users, call>>
    /\ conn' = [conn EXCEPT ![c] = [FreshConn EXCEPT !.holder = conn[c].holder]]
    /\ UNCHANGED <<nCalls, ui>>

\* the caller of createUser, deleteUser or editUsersRoleByUsername has its
\* result
Return(p) ==
    /\ call[p].op \in {"createUser", "deleteUser", "editUsersRoleByUsername"}
    /\ call[p].pc = "done"
    /\ call' = [call EXCEPT ![p] = IdleCall]
    /\ UNCHANGED <<users, conn, nCalls, ui>>

Next ==
    \/ \E p \in Procs : Connect(p)
    \/ \E p \in Procs : StartGetReadable(p)
    \/ \E p \in Procs : GetReadableCompile(p)
    \/ \E p \in Procs : GetReadableQuery(p)
    \/ \E p \in Procs : updateUsers(p)
    \/ \E p \in Procs : StartCreateUser(p)
    \/ \E p \in Procs : CreateUserCheck(p)
    \/ \E p \in Procs : CreateUserInsert(p)
    \/ \E p \in Procs : StartDeleteUser(p)
    \/ \E p \in Procs : DeleteUserCheck(p)
    \/ \E p \in Procs : DeleteUserDelete(p)
    \/ \E p \in Procs : StartEditUsersRole(p)
    \/ \E p \in Procs : EditUsersRoleCompile(p)
    \/ \E p \in Procs : EditUsersRoleBegin(p)
    \/ \E p \in Procs : EditUsersRoleUpdate(p)
    \/ \E c \in Conns : ExecQueued(c)
    \/ \E p \in Procs : Return(p)

Spec == Init /\ [][Next]_vars

(***************************************************************************)
(* The same server actions from the table of the role-editing scenario:    *)
(* alice a member and bob an admin of acme. bob submits alice -> admin,    *)
(* alice submits bob -> any role, root submits any batch.                  *)
(***************************************************************************)
ScenarioTable ==
    [u \in Usernames |->
        CASE u = "alice" -> [org |-> "acme", role |-> "member"]
          [] u = "bob" -> [org |-> "acme", role |-> "admin"]
          [] OTHER -> [org |-> "_", role |-> "admin"]]

ScenarioBatches(requestor) ==
    CASE requestor = "bob" -> {<<[username |-> "alice", role |-> "admin"]>>}
      [] requestor = "alice" -> {<<[username |-> "bob", role |-> r]>> : r \in RoleInputs}
      [] OTHER -> Batches

ScenarioInit ==
    /\ users = ScenarioTable
    /\ conn = [c \in Conns |-> FreshConn]
    /\ call = [p \in Procs |-> IdleCall]
    /\ nCalls = 0
    /\ ui = [users |-> <<>>, errorMessage |-> FALSE]

ScenarioEditUsersRoleUpdate(p) ==
    EditUsersRoleUpdateOf(p, ScenarioBatches(call[p].requestor))

ScenarioNext ==
    \/ \E p \in Procs : Connect(p)
    \/ \E p \in Procs : StartGetReadable(p)
    \/ \E p \in Procs : GetReadableCompile(p)
    \/ \E p \in Procs : GetReadableQuery(p)
    \/ \E p \in Procs : updateUsers(p)
    \/ \E p \in Procs : StartCreateUser(p)
    \/ \E p \in Procs : CreateUserCheck(p)
    \/ \E p \in Procs : CreateUserInsert(p)
    \/ \E p \in Procs : StartDeleteUser(p)
    \/ \E p \in Procs : DeleteUserCheck(p)
    \/ \E p \in Procs : DeleteUserDelete(p)
    \/ \E p \in Procs : StartEditUsersRole(p)
    \/ \E p \in Procs : EditUsersRoleCompile(p)
    \/ \E p \in Procs : EditUsersRoleBegin(p)
    \/ \E p \in Procs : ScenarioEditUsersRoleUpdate(p)
    \/ \E c \in Conns : ExecQueued(c)
    \/ \E p \in Procs : Return(p)

ScenarioSpec == ScenarioInit /\ [][ScenarioNext]_vars

(***************************************************************************)
(* The same server actions on a pool of any size from 1 to NumConns: the   *)
(* clients above the pool's size are never opened, so with a pool of one   *)
(* client a second concurrent call waits in pool.connect().                *)
(*                                                                         *)
(* Fairness: the event loop and the database server keep running whatever  *)
(* can run. A pending pool.connect() is resolved when a client is          *)
(* released, an awaited statement is run and its promise resolved, a       *)
(* queued COMMIT or ROLLBACK is run, a finished call returns. Nothing      *)
(* forces a new call to be made.                                           *)
(***************************************************************************)
Closed == -1

PoolInit ==
    /\ users = ScenarioTable
    /\ \E size \in 1..NumConns :
        conn = [c \in Conns |->
                    IF c <= size THEN FreshConn
                    ELSE [FreshConn EXCEPT !.holder = Closed]]
    /\ call = [p \in Procs |-> IdleCall]
    /\ nCalls = 0
    /\ ui = [users |-> <<>>, errorMessage |-> FALSE]

Progress ==
    \/ \E p \in Procs : Connect(p)
    \/ \E p \in Procs : GetReadableCompile(p)
    \/ \E p \in Procs : GetReadableQuery(p)
    \/ \E p \in Procs : updateUsers(p)
    \/ \E p \in Procs : CreateUserCheck(p)
    \/ \E p \in Procs : CreateUserInsert(p)
    \/ \E p \in Procs : DeleteUserCheck(p)
    \/ \E p \in Procs : DeleteUserDelete(p)
    \/ \E p \in Procs : EditUsersRoleCompile(p)
    \/ \E p \in Procs : EditUsersRoleBegin(p)
    \/ \E p \in Procs : EditUsersRoleUpdate(p)
    \/ \E c \in Conns : ExecQueued(c)
    \/ \E p \in Procs : Return(p)

PoolSpec == PoolInit /\ [][Next]_vars /\ WF_vars(Progress)


(***************************************************************************)
(* Properties.                                                             *)
(***************************************************************************)
Done(p, op) == call[p].op = op /\ call[p].pc = "done"

\* C1: an editUsersRoleByUsername call with N >= 1 targets whose UPDATE
\* returned a count fails and rolls back when the requestor holds edit_role on
\* fewer than N of them, and commits when it holds edit_role on all N.
C1_BatchAllOrNothing ==
    \A p \in Procs :
        Done(p, "editUsersRoleByUsername") /\ call[p].n >= 1 /\ call[p].rowCount >= 0
        => /\ call[p].nAuth < call[p].n
                => call[p].result = "throw" /\ call[p].sent = "ROLLBACK"
           /\ call[p].nAuth = call[p].n
                => call[p].result = "ok" /\ call[p].sent = "COMMIT"

\* C2 as stated: whenever a committed change removed the requestor's edit_role
\* on a target between the compilation and the UPDATE, the UPDATE reports a
\* count lower than updates.length and the batch is rolled back.
C2_RevokedLowersCount ==
    \A p \in Procs :
        Done(p, "editUsersRoleByUsername") /\ call[p].revoked
        => /\ call[p].rowCount >= 0
           /\ call[p].rowCount < call[p].n
           /\ call[p].sent = "ROLLBACK"
           /\ call[p].result = "throw"

\* C2 as amended: when the requestor still lacks, as the UPDATE runs, the
\* edit_role a committed change took from it on a target after the
\* compilation, the call fails and never sends COMMIT: the UPDATE raises, or
\* it reports a count lower than updates.length and ROLLBACK is sent. And a
\* COMMIT is only ever queued for a batch whose targets were all authorized
\* when its UPDATE ran, so none of the submitted roles becomes observable.
C2_RevokedBatchFails ==
    /\ \A p \in Procs :
        Done(p, "editUsersRoleByUsername") /\ call[p].revokedStill
        => /\ call[p].result = "throw"
           /\ call[p].sent # "COMMIT"
           /\ \/ call[p].rowCount = -1
              \/ call[p].rowCount < call[p].n /\ call[p].sent = "ROLLBACK"
    /\ \A c \in Conns :
        conn[c].queued = "COMMIT" => conn[c].full /\ conn[c].txn = "open"

\* a batch of two, one target revoked after the compilation, rolled back
C2_Witness ==
    \E p \in Procs :
        /\ Done(p, "editUsersRoleByUsername")
        /\ call[p].revokedStill
        /\ call[p].n = 2
        /\ call[p].rowCount = 1
        /\ call[p].sent = "ROLLBACK"

\* C3: whenever createUser's INSERT or deleteUser's DELETE runs, the requestor
\* holds the checked permission in the table the statement runs against.
C3_PermissionHeldAtMutation ==
    \A p \in Procs :
        call[p].op \in {"createUser", "deleteUser"} /\ call[p].mutated
        => call[p].authAtStmt

\* C4: no deleteUser and no committed editUsersRoleByUsername of requestor R
\* changes or removes R's own row.
C4_NoSelfModification ==
    [][/\ \A p \in Procs :
            /\ call[p].op = "deleteUser"
            /\ call[p].pc = "mutate"
            /\ call'[p].pc = "done"
            => users'[call[p].requestor] = users[call[p].requestor]
       /\ \A c \in Conns :
            /\ conn[c].queued = "COMMIT"
            /\ conn'[c].queued = "none"
            => users'[conn[c].by] = users[conn[c].by]]_vars

\* C5: in createUser and deleteUser the mutating statement is only ever sent
\* after the check has returned true; when the check returns false no
\* statement is sent, the step leaves users unchanged and the call reports
\* failure (createUser success:false, deleteUser a throw).
C5_CheckGuardsMutation ==
    /\ [](\A p \in Procs :
            call[p].op \in {"createUser", "deleteUser"}
            => /\ call[p].mutated \/ call[p].pc = "mutate"
                    => call[p].checked /\ call[p].auth
               /\ call[p].pc = "done" /\ call[p].checked /\ ~call[p].auth
                    => /\ ~call[p].mutated
                       /\ call[p].result = IF call[p].op = "createUser"
                                           THEN "fail" ELSE "throw")
    /\ [][\A p \in Procs :
            /\ call[p].op \in {"createUser", "deleteUser"}
            /\ call[p].pc = "check"
            /\ call'[p].pc = "done"
            => users' = users]_vars

\* both actions refused by their check
C5_Witness ==
    /\ \E p \in Procs :
        Done(p, "deleteUser") /\ call[p].checked /\ ~call[p].auth
    /\ \E p \in Procs :
        Done(p, "createUser") /\ call[p].checked /\ ~call[p].auth

\* C6: whenever editUsersRoleByUsername fails because the affected-row count
\* differs from updates.length, the requestor lacks edit_role on at least one
\* submitted target.
C6_MismatchMeansUnauthorized ==
    \A p \in Procs :
        /\ Done(p, "editUsersRoleByUsername")
        /\ call[p].rowCount >= 0
        /\ call[p].rowCount # call[p].n
        => call[p].nAuth < call[p].n

\* C7: a normal return of getReadableUsersWithPermissions(S) holds, in users
\* and in thisUser, only users u with check(S, "read", u) true in the table
\* the query ran against.
C7_ReadSound ==
    \A p \in Procs :
        Done(p, "getReadableUsersWithPermissions") /\ call[p].result = "ok"
        => /\ call[p].thisUser.username \in call[p].snap
           /\ \A i \in 1..Len(call[p].ret) : call[p].ret[i].username \in call[p].snap

\* rows returned while a user the requestor may not read exists
C7_Witness ==
    \E p \in Procs :
        /\ Done(p, "getReadableUsersWithPermissions")
        /\ call[p].result = "ok"
        /\ Len(call[p].ret) >= 1
        /\ \E u \in Usernames : Exists(users, u) /\ u \notin MayRead(users, call[p].requestor)
        /\ MayRead(users, call[p].requestor) = call[p].snap

\* C8: a normal return of getReadableUsersWithPermissions(S) has S's row as
\* thisUser and no row of S in users, nor has the list UserCreator hands to
\* UserManager.
C8_SelfExtracted ==
    \A p \in Procs :
        Done(p, "getReadableUsersWithPermissions") /\ call[p].result = "ok"
        => /\ call[p].thisUser.username = call[p].requestor
           /\ \A i \in 1..Len(call[p].ret) :
                call[p].ret[i].username # call[p].requestor
           /\ \A i \in 1..Len(ui.users) :
                ui.users[i].username # call[p].requestor

\* a normal return with other users beside the requestor
C8_Witness ==
    \E p \in Procs :
        /\ Done(p, "getReadableUsersWithPermissions")
        /\ call[p].result = "ok"
        /\ Len(call[p].ret) = 2

\* C9: no client is in the pool with a transaction that nothing queued on it
\* will end.
C9_NoTransactionLeftOpen ==
    \A c \in Conns :
        conn[c].holder = 0 /\ conn[c].queued = "none" => conn[c].txn = "none"

\* C10: every server action holds exactly one client from pool.connect() to
\* its end, has released it exactly once when it has finished, and holds none
\* afterwards.
C10_OneClientPerCall ==
    \A p \in Procs :
        LET held == {c \in Conns : conn[c].holder = p} IN
        /\ call[p].client = NoClient => held = {}
        /\ call[p].client # NoClient => held = {call[p].client}
        /\ call[p].pc \in {"idle", "connect"}
            => call[p].acquired = 0 /\ call[p].released = 0 /\ held = {}
        /\ call[p].pc \notin {"idle", "connect", "done"}
            => call[p].acquired = 1 /\ call[p].released = 0 /\ Cardinality(held) = 1
        /\ call[p].pc = "done"
            => call[p].acquired = 1 /\ call[p].released = 1 /\ held = {}

\* all four actions finished, one of them on a statement error
C10_Witness ==
    /\ \E p \in Procs :
        /\ Done(p, "editUsersRoleByUsername")
        /\ call[p].mutated
        /\ call[p].rowCount = -1
        /\ call[p].released = 1
    /\ \E p \in Procs :
        /\ call[p].op \in {"createUser", "deleteUser", "getReadableUsersWithPermissions"}
        /\ call[p].pc = "done"
        /\ call[p].released = 1

\* C11: editUsersRoleByUsername with an empty updates list ends in a throw,
\* never in a normal return; its UPDATE step leaves users unchanged, writes no
\* row and queues no COMMIT.
C11_EmptyBatchIsAnError ==
    /\ [](\A p \in Procs :
            Done(p, "editUsersRoleByUsername") /\ call[p].n = 0
            => call[p].result = "throw" /\ call[p].sent = "none")
    /\ [][\A p \in Procs :
            /\ call[p].op = "editUsersRoleByUsername"
            /\ call[p].pc = "update"
            /\ call'[p].n = 0
            => /\ users' = users
               /\ conn'[call[p].client].queued = "none"
               /\ conn'[call[p].client].writes = NoWrites]_vars

\* an empty batch has reached the UPDATE and the call has thrown
C11_Witness ==
    \E p \in Procs :
        /\ Done(p, "editUsersRoleByUsername")
        /\ call[p].mutated
        /\ call[p].n = 0
        /\ call[p].result = "throw"

\* C12: when the UPDATE runs with alice a member and bob an admin of acme,
\* bob's batch [alice -> admin] returns normally with affected-row count 1,
\* alice's row written to admin and COMMIT sent, and the COMMIT makes that
\* role alice's; alice's batch [bob -> any role] throws with count 0, no row
\* written and ROLLBACK sent, and the ROLLBACK leaves users as it is.
C12_AdminEditsMemberNotConversely ==
    [][/\ \A p \in Procs :
            /\ call[p].op = "editUsersRoleByUsername"
            /\ call[p].pc = "update"
            /\ call'[p].pc = "done"
            /\ users["alice"] = [org |-> "acme", role |-> "member"]
            /\ users["bob"] = [org |-> "acme", role |-> "admin"]
            => /\ call[p].requestor = "bob"
                    => /\ call'[p].result = "ok"
                       /\ call'[p].rowCount = 1
                       /\ conn'[call[p].client].writes =
                                [NoWrites EXCEPT !["alice"] = "admin"]
                       /\ conn'[call[p].client].queued = "COMMIT"
               /\ call[p].requestor = "alice"
                    => /\ call'[p].result = "throw"
                       /\ call'[p].rowCount = 0
                       /\ conn'[call[p].client].writes = NoWrites
                       /\ conn'[call[p].client].queued = "ROLLBACK"
       /\ \A c \in Conns :
            /\ conn[c].queued = "COMMIT" /\ conn'[c].queued = "none"
                => \A u \in Usernames :
                        conn[c].writes[u] # "-" => users'[u].role = conn[c].writes[u]
            /\ conn[c].queued = "ROLLBACK" /\ conn'[c].queued = "none"
                => users' = users]_vars

\* alice's batch has been refused and bob's has made alice an admin
C12_Witness ==
    /\ users["alice"] = [org |-> "acme", role |-> "admin"]
    /\ users["bob"] = [org |-> "acme", role |-> "admin"]
    /\ \E p \in Procs :
        /\ Done(p, "editUsersRoleByUsername")
        /\ call[p].requestor = "alice"
        /\ call[p].rowCount = 0
        /\ call[p].sent = "ROLLBACK"
    /\ \E p \in Procs :
        /\ Done(p, "editUsersRoleByUsername")
        /\ call[p].requestor = "bob"
        /\ call[p].rowCount = 1
        /\ call[p].sent = "COMMIT"

\* C13: a createUser check on organization acme returns true, and the INSERT
\* follows, for a requestor who is admin of the global organization `_`; it
\* returns false, the call fails and users stays as it is, for a requestor
\* who is a member of acme.
C13_GlobalAdminCreatesUser ==
    [][\A p \in Procs :
            /\ call[p].op = "createUser"
            /\ call[p].pc = "check"
            /\ call'[p].checked
            /\ call'[p].org = "acme"
            => /\ users[call[p].requestor] = [org |-> "_", role |-> "admin"]
                    => call'[p].auth /\ call'[p].pc = "mutate"
               /\ users[call[p].requestor] = [org |-> "acme", role |-> "member"]
                    => /\ ~call'[p].auth
                       /\ call'[p].pc = "done"
                       /\ call'[p].result = "fail"
                       /\ users' = users]_vars

\* C14: once editUsersRoleByUsername has returned normally, no COMMIT of a
\* transaction of its requestor is still waiting to be run.
C14_CommitCompletedAtReturn ==
    \A p \in Procs :
        Done(p, "editUsersRoleByUsername") /\ call[p].result = "ok"
        => \A c \in Conns :
                ~(conn[c].queued = "COMMIT" /\ conn[c].by = call[p].requestor)

\* C15: the one query of getReadableUsersWithPermissions returns exactly the
\* users the requestor may read in the table it ran against, each with its
\* own org and role of that table, and editRole (deleteUser) of a row is true
\* exactly when check(requestor, "edit_role" ("delete"), that user) holds in
\* that table.
C15_FlagsPerRowOneState ==
    [][\A p \in Procs :
            /\ call[p].op = "getReadableUsersWithPermissions"
            /\ call[p].pc = "query"
            /\ call'[p].result = "ok"
            => LET rows == <<call'[p].thisUser>> \o call'[p].ret
                   S == call[p].requestor
               IN  /\ {rows[i].username : i \in 1..Len(rows)} = MayRead(users, S)
                   /\ Len(rows) = Cardinality(MayRead(users, S))
                   /\ \A i \in 1..Len(rows) :
                        LET u == [type |-> "User", id |-> rows[i].username] IN
                        /\ rows[i].org = users[u.id].org
                        /\ rows[i].role = users[u.id].role
                        /\ rows[i].editRole = authorizeUser(users, S, "edit_role", u)
                        /\ rows[i].deleteUser = authorizeUser(users, S, "delete", u)]_vars

\* one return with the flags true for another user, one with the flags false
C15_Witness ==
    /\ \E p \in Procs :
        /\ Done(p, "getReadableUsersWithPermissions")
        /\ call[p].result = "ok"
        /\ \E i \in 1..Len(call[p].ret) :
                call[p].ret[i].editRole /\ call[p].ret[i].deleteUser
    /\ \E p \in Procs :
        /\ Done(p, "getReadableUsersWithPermissions")
        /\ call[p].result = "ok"
        /\ \E i \in 1..Len(call[p].ret) :
                ~call[p].ret[i].editRole /\ ~call[p].ret[i].deleteUser

\* C16: an INSERT of createUser that succeeds adds the row (username, org,
\* role) it submitted, for a username that had no row, and changes no other
\* row; an INSERT for an existing username or with a role outside the enum
\* fails, and a createUser whose INSERT fails reports failure and leaves
\* users as it is.
C16_InsertOneRowOrNothing ==
    [][\A p \in Procs :
            /\ call[p].op = "createUser"
            /\ call[p].pc = "mutate"
            /\ call'[p].pc = "done"
            => /\ call'[p].result \in {"ok", "fail"}
               /\ call'[p].result = "ok"
                    => /\ ~Exists(users, call'[p].username)
                       /\ call'[p].org \in Organizations
                       /\ call'[p].role \in organization_role
                       /\ users' = [users EXCEPT ![call'[p].username] =
                                        [org |-> call'[p].org, role |-> call'[p].role]]
               /\ Exists(users, call'[p].username) \/ call'[p].role \notin organization_role
                    => call'[p].result = "fail"
               /\ call'[p].result = "fail" => users' = users]_vars

\* a user created, and an INSERT refused for its role or its username
C16_Witness ==
    /\ \E p \in Procs :
        Done(p, "createUser") /\ call[p].mutated /\ call[p].result = "ok"
    /\ \E p \in Procs :
        Done(p, "createUser") /\ call[p].mutated /\ call[p].result = "fail"

\* C17: when its query runs without an error, getReadableUsersWithPermissions
\* throws exactly when the requestor is not among the users the read
\* predicate selects; a throw returns no rows, and otherwise the call returns
\* normally.
C17_ThrowsIffRequestorAbsent ==
    [][\A p \in Procs :
            /\ call[p].op = "getReadableUsersWithPermissions"
            /\ call[p].pc = "query"
            /\ call'[p].pc = "done"
            /\ conn[call[p].client].txn # "aborted"
            => /\ call'[p].result = "throw"
                    <=> call[p].requestor \notin MayRead(users, call[p].requestor)
               /\ call'[p].result = "throw"
                    => call'[p].ret = <<>> /\ call'[p].thisUser = "-"
               /\ call'[p].result # "throw" => call'[p].result = "ok"]_vars

\* the query ran for a requestor without a row, and the call threw
C17_Witness ==
    \E p \in Procs :
        /\ Done(p, "getReadableUsersWithPermissions")
        /\ call[p].checked
        /\ call[p].result = "throw"
        /\ ~Exists(users, call[p].requestor)

\* C18: the COMMIT of an editUsersRoleByUsername transaction changes the rows
\* named in its batch and no other, each by its role alone, to the one role
\* the batch submits for it; no row appears or disappears.
C18_CommitFrame ==
    [][\A c \in Conns :
            /\ conn[c].queued = "COMMIT"
            /\ conn'[c].queued = "none"
            => \A u \in Usernames :
                    IF conn[c].submitted[u] = {}
                    THEN users'[u] = users[u]
                    ELSE /\ Exists(users, u)
                         /\ users'[u].org = users[u].org
                         /\ conn[c].submitted[u] = {users'[u].role}]_vars

\* a committed batch of two has changed both roles
C18_Witness ==
    /\ users["alice"].role = "admin"
    /\ users["bob"].role = "member"
    /\ \E p \in Procs :
        /\ Done(p, "editUsersRoleByUsername")
        /\ call[p].result = "ok"
        /\ call[p].n = 2
    /\ \A c \in Conns : conn[c].queued = "none"

\* C19: on a pool of any size from 1 to NumConns, a call waiting in
\* pool.connect() holds no client, and the calls that are made all come to
\* their end: eventually, and from then on, every call has finished and
\* returned, every client is back in the pool and no statement is queued.
C19_EveryCallFinishes ==
    /\ [](\A p \in Procs :
            call[p].pc = "connect" => \A c \in Conns : conn[c].holder # p)
    /\ <>[](/\ \A p \in Procs : call[p].pc = "idle"
            /\ \A c \in Conns : conn[c].holder \notin Procs /\ conn[c].queued = "none")

\* a call waits in pool.connect() while another call holds the only client
C19_Witness ==
    /\ \E p \in Procs : call[p].pc = "connect"
    /\ \E c \in Conns : conn[c].holder \in Procs
    /\ IdleClients = {}

====
